---------------------------- MODULE Spec2Model ----------------------------
(***************************************************************************)
(* A model of tactful, a personal contact-store converter.                 *)
(*                                                                         *)
(* Strings are sequences of one-character strings.  Option<T> is a         *)
(* sequence of length at most one: None is << >>, Some(v) is <<v>>.        *)
(* anyhow::Result<T> is a record [ok, val, err]: val is <<v>> for Ok(v),   *)
(* err is the chain of context messages (outermost first) for Err.         *)
(***************************************************************************)
EXTENDS Integers, Sequences, FiniteSets

VARIABLES
    pc,              \* position of the run
    partial,         \* a PartialDate {year, month, day} built from its fields
    valid,           \* result of PartialDate::validate on partial
    string_repr,     \* text handed to PartialDate::from_json_string_repr
    parsed,          \* result of PartialDate::from_json_string_repr
    vcard_repr,      \* result of PartialDate::to_vcard_string_repr
    json_phone,      \* a JsonPhoneNumber {number, type}
    phone_number,    \* result of PhoneNumber::try_from(json_phone)
    document,        \* contacts.json after serde: a sequence of JSON objects
    store,           \* result of ContactStore::from_path
    written,         \* the JSON document contacts_to_json wrote
    reloaded,        \* result of contacts_from_json on the written document
    vcard,           \* what contacts_to_vcard wrote and how it ended
    today,           \* Option<Date>: Date::today() as read by the run
    bday_items,      \* the birthday listing, in output order
    converted,       \* Option<PartialDate>: PartialDate::from(Date)
    calendar         \* the events of the birthday calendar, or its panic

vars == <<pc, partial, valid, string_repr, parsed, vcard_repr, json_phone,
          phone_number, document, store, written, reloaded, vcard, today,
          bday_items, converted, calendar>>

valueVars == <<partial, valid, string_repr, parsed, vcard_repr, json_phone,
               phone_number>>

programVars == <<document, store, written, reloaded, vcard, today,
                 bday_items, converted, calendar>>

-----------------------------------------------------------------------------
(* Bounds of the model *)

\* most '-'-separated components of a bday text
MaxComponents == 4
\* longest phone number drawn character by character
MaxPhoneLen == 3
\* most contacts in contacts.json
MaxContacts == 2

-----------------------------------------------------------------------------
(* Option and Result *)

None == << >>

Some(v) == <<v>>

IsSome(o) == Len(o) = 1

Unwrap(o) == o[1]

Ok(v) == [ok |-> TRUE, val |-> <<v>>, err |-> << >>]

\* one message of an error chain; who is the contact the message names, if any
Layer(msg, who) == [msg |-> msg, who |-> who]

Err(msg) == [ok |-> FALSE, val |-> << >>, err |-> <<Layer(msg, None)>>]

\* anyhow's .context(msg): an Err gets msg as its outermost layer
WithContext(r, msg) ==
    IF r.ok THEN r ELSE [r EXCEPT !.err = <<Layer(msg, None)>> \o @]

\* .with_context(error_message) of Contact::try_from: the layer names the contact
WithContactContext(r, name) ==
    IF r.ok THEN r
    ELSE [r EXCEPT !.err = <<Layer("Failed to parse contact", Some(name))>> \o @]

-----------------------------------------------------------------------------
(* Characters and decimal formatting *)

DigitStr == <<"0", "1", "2", "3", "4", "5", "6", "7", "8", "9">>

AsciiDigits == {DigitStr[i] : i \in 1..10}

DigitVal(c) == (CHOOSE i \in 1..10 : DigitStr[i] = c) - 1

\* char::is_whitespace, on the characters the model draws
Whitespace == {" ", "\t", "\n"}

\* u16::MAX
U16Max == 65535

RECURSIVE to_string(_)
\* u16's Display: decimal, no padding
to_string(n) ==
    IF n < 10 THEN <<DigitStr[n + 1]>>
    ELSE to_string(n \div 10) \o <<DigitStr[(n % 10) + 1]>>

RECURSIVE Zeros(_)
Zeros(k) == IF k <= 0 THEN << >> ELSE <<"0">> \o Zeros(k - 1)

\* format!("{n:0w}"): zero-padded to at least w characters
Pad(n, w) == LET s == to_string(n) IN Zeros(w - Len(s)) \o s

-----------------------------------------------------------------------------
(* PartialDate *)

PartialDate(y, m, d) == [year |-> y, month |-> m, day |-> d]

\* is_leap_year without the century rule
is_leap_year_every_fourth(year) == year % 4 = 0

is_leap_year(year) ==
    ((year % 4 = 0) /\ (year % 100 # 0)) \/ (year % 400 = 0)

\* -1 stands for the unreachable!() panic on a month outside 1..=12
max_days_in_month(month, year) ==
    IF month = None THEN 31
    ELSE CASE Unwrap(month) = 1 -> 31
           [] Unwrap(month) = 2 ->
                 IF year = None THEN 29
                 ELSE IF is_leap_year(Unwrap(year)) THEN 29 ELSE 28
           [] Unwrap(month) = 3 -> 31
           [] Unwrap(month) = 4 -> 30
           [] Unwrap(month) = 5 -> 31
           [] Unwrap(month) = 6 -> 30
           [] Unwrap(month) = 7 -> 31
           [] Unwrap(month) = 8 -> 31
           [] Unwrap(month) = 9 -> 30
           [] Unwrap(month) = 10 -> 31
           [] Unwrap(month) = 11 -> 30
           [] Unwrap(month) = 12 -> 31
           [] OTHER -> -1

validate(self) ==
    IF IsSome(self.month) /\ (Unwrap(self.month) = 0 \/ Unwrap(self.month) > 12)
    THEN Err("Invalid month")
    ELSE IF IsSome(self.day)
            /\ (Unwrap(self.day) = 0
                \/ Unwrap(self.day) > max_days_in_month(self.month, self.year))
         THEN Err("Invalid day")
         ELSE Ok("unit")

\* to_json_string_repr joining only the components that are present
to_json_string_repr_present_only(self) ==
    LET year  == IF IsSome(self.year) THEN <<to_string(Unwrap(self.year))>> ELSE << >>
        month == IF IsSome(self.month) THEN <<Pad(Unwrap(self.month), 2)>> ELSE << >>
        day   == IF IsSome(self.day) THEN <<Pad(Unwrap(self.day), 2)>> ELSE << >>
        parts == year \o month \o day
        join[i \in 0..3] ==
            IF i = 0 THEN << >>
            ELSE IF i = 1 THEN parts[1]
            ELSE join[i - 1] \o <<"-">> \o parts[i]
    IN join[Len(parts)]

to_json_string_repr(self) ==
    LET year  == IF IsSome(self.year) THEN to_string(Unwrap(self.year)) ELSE << >>
        month == IF IsSome(self.month) THEN Pad(Unwrap(self.month), 2) ELSE << >>
        day   == IF IsSome(self.day) THEN Pad(Unwrap(self.day), 2) ELSE << >>
    IN year \o <<"-">> \o month \o <<"-">> \o day

RECURSIVE ParseDigits(_, _, _)
\* the digit loop of u16::from_str: checked multiply by ten, checked add
ParseDigits(src, i, acc) ==
    IF i > Len(src) THEN Ok(acc)
    ELSE IF src[i] \notin AsciiDigits THEN Err("invalid digit found in string")
    ELSE IF acc * 10 > U16Max THEN Err("number too large to fit in target type")
    ELSE IF acc * 10 + DigitVal(src[i]) > U16Max
         THEN Err("number too large to fit in target type")
    ELSE ParseDigits(src, i + 1, acc * 10 + DigitVal(src[i]))

\* u16::from_str: an optional leading '+', then at least one decimal digit
u16_from_str(src) ==
    IF Len(src) = 0 THEN Err("cannot parse integer from empty string")
    ELSE IF Len(src) = 1 /\ src[1] \in {"+", "-"}
         THEN Err("invalid digit found in string")
    ELSE IF src[1] = "+" THEN ParseDigits(src, 2, 0)
    ELSE ParseDigits(src, 1, 0)

parse_json_component(component) ==
    IF Len(component) = 0 THEN Ok(None)
    ELSE LET r == u16_from_str(component)
         IN IF r.ok THEN Ok(Some(Unwrap(r.val)))
            ELSE WithContext(r, "Invalid component")

RECURSIVE SplitAt(_, _, _)
\* str::split(sep) from position i, cur being the component collected so far
SplitAt(s, i, cur) ==
    IF i > Len(s) THEN <<cur>>
    ELSE IF s[i] = "-" THEN <<cur>> \o SplitAt(s, i + 1, << >>)
    ELSE SplitAt(s, i + 1, Append(cur, s[i]))

split(s) == SplitAt(s, 1, << >>)

from_json_string_repr(repr) ==
    LET components == split(repr)
    IN IF Len(components) # 3 THEN Err("Invalid date format")
       ELSE LET y == parse_json_component(components[1])
                m == parse_json_component(components[2])
                d == parse_json_component(components[3])
            IN IF ~y.ok THEN WithContext(y, "Invalid date format")
               ELSE IF ~m.ok THEN WithContext(m, "Invalid date format")
               ELSE IF ~d.ok THEN WithContext(d, "Invalid date format")
               ELSE LET date == PartialDate(Unwrap(y.val), Unwrap(m.val),
                                            Unwrap(d.val))
                        v == validate(date)
                    IN IF ~v.ok THEN WithContext(v, "Invalid date")
                       ELSE Ok(date)

\* to_vcard_string_repr without the check of the year's width
to_vcard_string_repr_any_year(self) ==
    LET y == self.year
        m == self.month
        d == self.day
    IN CASE y = None /\ m = None /\ IsSome(d) ->
               Ok(<<"-", "-", "-">> \o Pad(Unwrap(d), 2))
         [] y = None /\ IsSome(m) /\ d = None ->
               Ok(<<"-", "-">> \o Pad(Unwrap(m), 2))
         [] y = None /\ IsSome(m) /\ IsSome(d) ->
               Ok(<<"-", "-">> \o Pad(Unwrap(m), 2) \o Pad(Unwrap(d), 2))
         [] IsSome(y) /\ m = None /\ d = None ->
               Ok(Pad(Unwrap(y), 4))
         [] IsSome(y) /\ IsSome(m) /\ d = None ->
               Ok(Pad(Unwrap(y), 4) \o <<"-">> \o Pad(Unwrap(m), 2))
         [] IsSome(y) /\ IsSome(m) /\ IsSome(d) ->
               Ok(Pad(Unwrap(y), 4) \o Pad(Unwrap(m), 2) \o Pad(Unwrap(d), 2))
         [] OTHER -> Err("Date cannot be represented in vCard version 4.0")

to_vcard_string_repr(self) ==
    IF IsSome(self.year) /\ Unwrap(self.year) > 9999
    THEN Err("Years greater than 9999 cannot be represented in vCard version 4.0")
    ELSE LET y == self.year
             m == self.month
             d == self.day
         IN CASE y = None /\ m = None /\ IsSome(d) ->
                    Ok(<<"-", "-", "-">> \o Pad(Unwrap(d), 2))
              [] y = None /\ IsSome(m) /\ d = None ->
                    Ok(<<"-", "-">> \o Pad(Unwrap(m), 2))
              [] y = None /\ IsSome(m) /\ IsSome(d) ->
                    Ok(<<"-", "-">> \o Pad(Unwrap(m), 2) \o Pad(Unwrap(d), 2))
              [] IsSome(y) /\ m = None /\ d = None ->
                    Ok(Pad(Unwrap(y), 4))
              [] IsSome(y) /\ IsSome(m) /\ d = None ->
                    Ok(Pad(Unwrap(y), 4) \o <<"-">> \o Pad(Unwrap(m), 2))
              [] IsSome(y) /\ IsSome(m) /\ IsSome(d) ->
                    Ok(Pad(Unwrap(y), 4) \o Pad(Unwrap(m), 2) \o Pad(Unwrap(d), 2))
              [] OTHER -> Err("Date cannot be represented in vCard version 4.0")

\* impl From<Date> for PartialDate
PartialDateFromDate(date) ==
    PartialDate(Some(date.year), Some(date.month), Some(date.day))

-----------------------------------------------------------------------------
(* PhoneNumber *)

RECURSIVE FilterNotWhitespace(_)
\* .chars().filter(|c| !c.is_whitespace())
FilterNotWhitespace(s) ==
    IF Len(s) = 0 THEN << >>
    ELSE IF Head(s) \in Whitespace THEN FilterNotWhitespace(Tail(s))
    ELSE <<Head(s)>> \o FilterNotWhitespace(Tail(s))

\* PhoneNumber::validate on the number as written, whitespace kept
PhoneNumber_validate_unfiltered(self) ==
    LET chars == self.number
    IN IF Len(chars) = 0 THEN Err("Phone number cannot be empty")
       ELSE IF ~(chars[1] \in AsciiDigits \/ chars[1] = "+")
            THEN Err("Phone number must begin with a digit or a '+'")
       ELSE IF ~(\A i \in 2..Len(chars) : chars[i] \in AsciiDigits)
            THEN Err("All except the first character of a phone number must be digits")
       ELSE Ok("unit")

PhoneNumber_validate(self) ==
    LET chars == FilterNotWhitespace(self.number)
    IN IF Len(chars) = 0 THEN Err("Phone number cannot be empty")
       ELSE IF ~(chars[1] \in AsciiDigits \/ chars[1] = "+")
            THEN Err("Phone number must begin with a digit or a '+'")
       ELSE IF ~(\A i \in 2..Len(chars) : chars[i] \in AsciiDigits)
            THEN Err("All except the first character of a phone number must be digits")
       ELSE Ok("unit")

\* impl From<JsonPhoneNumberType> for PhoneNumberType
PhoneNumberTypeFromJson(ty) ==
    CASE ty = "mobile" -> "Mobile"
      [] ty = "work" -> "Work"
      [] ty = "home" -> "Home"

\* the conversion with Work and Home exchanged
JsonPhoneNumberTypeFrom_swapped(ty) ==
    CASE ty = "Mobile" -> "mobile"
      [] ty = "Work" -> "home"
      [] ty = "Home" -> "work"

\* impl From<PhoneNumberType> for JsonPhoneNumberType
JsonPhoneNumberTypeFrom(ty) ==
    CASE ty = "Mobile" -> "mobile"
      [] ty = "Work" -> "work"
      [] ty = "Home" -> "home"

\* impl TryFrom<JsonPhoneNumber> for PhoneNumber
PhoneNumber_try_from(json_phone_number) ==
    LET pn == [number |-> json_phone_number.number,
               ty |-> PhoneNumberTypeFromJson(json_phone_number.type)]
        v == PhoneNumber_validate(pn)
    IN IF ~v.ok THEN WithContext(v, "Failed to parse phone number")
       ELSE Ok(pn)

-----------------------------------------------------------------------------
(* JSON codec *)

CH_ALPHA2 == <<"C", "H">>

CH_NAME == <<"S", "w", "i", "t", "z", "e", "r", "l", "a", "n", "d">>

DE_ALPHA2 == <<"D", "E">>

DE_NAME == <<"G", "e", "r", "m", "a", "n", "y">>

VCARD == <<"V", "C", "A", "R", "D">>

\* the country_codes table, as far as the documents of the model use it
CountryTable ==
    {[alpha2 |-> CH_ALPHA2, name |-> CH_NAME],
     [alpha2 |-> DE_ALPHA2, name |-> DE_NAME]}

\* country_codes::from_alpha2
from_alpha2(code) ==
    IF \E c \in CountryTable : c.alpha2 = code
    THEN Ok(CHOOSE c \in CountryTable : c.alpha2 = code)
    ELSE Err("unknown country code")

\* impl TryFrom<JsonAddress> for Address
Address_try_from(json_address) ==
    LET c == from_alpha2(json_address.country)
    IN IF ~c.ok THEN WithContext(c, "Failed to parse address")
       ELSE Ok([street |-> json_address.street,
                number |-> json_address.number,
                locality |-> json_address.locality,
                postal_code |-> json_address.postal_code,
                country |-> Unwrap(c.val)])

\* impl From<&Address> for JsonAddress
JsonAddressFrom(address) ==
    [street |-> address.street,
     number |-> address.number,
     locality |-> address.locality,
     postal_code |-> address.postal_code,
     country |-> address.country.alpha2]

\* impl From<&PhoneNumber> for JsonPhoneNumber
JsonPhoneNumberFrom(pn) ==
    [number |-> pn.number, type |-> JsonPhoneNumberTypeFrom(pn.ty)]

\* serde's Deserialize for JsonContact: an object (each optional key an Option)
\* becomes the struct; #[serde(default)] makes a missing phone or email empty
DeserializeJsonContact(object) ==
    [name |-> object.name,
     bday |-> object.bday,
     phone |-> IF object.phone = None THEN << >> ELSE Unwrap(object.phone),
     email |-> IF object.email = None THEN << >> ELSE Unwrap(object.email),
     address |-> object.address]

\* serde's Serialize for JsonContact: skip_serializing_if leaves out the key of
\* a None bday or address and of an empty phone or email
SerializeJsonContact(jc) ==
    [name |-> jc.name,
     bday |-> jc.bday,
     phone |-> IF Len(jc.phone) = 0 THEN None ELSE Some(jc.phone),
     email |-> IF Len(jc.email) = 0 THEN None ELSE Some(jc.email),
     address |-> jc.address]

\* impl From<&Contact> for JsonContact
JsonContactFrom(contact) ==
    [name |-> [first |-> contact.name.first, last |-> contact.name.last],
     bday |-> IF IsSome(contact.birthday)
              THEN Some(to_json_string_repr(Unwrap(contact.birthday)))
              ELSE None,
     phone |-> [i \in 1..Len(contact.phone_numbers) |->
                   JsonPhoneNumberFrom(contact.phone_numbers[i])],
     email |-> contact.email_addresses,
     address |-> IF IsSome(contact.address)
                 THEN Some(JsonAddressFrom(Unwrap(contact.address)))
                 ELSE None]

RECURSIVE CollectResults_skip(_, _)
\* a collect that leaves the Err items out and keeps the others
CollectResults_skip(rs, acc) ==
    IF Len(rs) = 0 THEN Ok(acc)
    ELSE IF ~Head(rs).ok THEN CollectResults_skip(Tail(rs), acc)
    ELSE CollectResults_skip(Tail(rs), Append(acc, Unwrap(Head(rs).val)))

RECURSIVE CollectResults(_, _)
\* .collect::<Result<Vec<_>, _>>(): the items in order, or the first Err
CollectResults(rs, acc) ==
    IF Len(rs) = 0 THEN Ok(acc)
    ELSE IF ~Head(rs).ok THEN Head(rs)
    ELSE CollectResults(Tail(rs), Append(acc, Unwrap(Head(rs).val)))

\* impl TryFrom<JsonContact> for Contact
Contact_try_from(json_contact) ==
    LET name == [first |-> json_contact.name.first,
                 last |-> json_contact.name.last]
        birthday == IF IsSome(json_contact.bday)
                    THEN LET r == from_json_string_repr(Unwrap(json_contact.bday))
                         IN IF r.ok THEN Ok(Some(Unwrap(r.val))) ELSE r
                    ELSE Ok(None)
        phone_numbers ==
            CollectResults([i \in 1..Len(json_contact.phone) |->
                               PhoneNumber_try_from(json_contact.phone[i])], << >>)
        address == IF IsSome(json_contact.address)
                   THEN LET r == Address_try_from(Unwrap(json_contact.address))
                        IN IF r.ok THEN Ok(Some(Unwrap(r.val))) ELSE r
                   ELSE Ok(None)
    IN IF ~birthday.ok THEN WithContactContext(birthday, name)
       ELSE IF ~phone_numbers.ok THEN WithContactContext(phone_numbers, name)
       ELSE IF ~address.ok THEN WithContactContext(address, name)
       ELSE Ok([name |-> name,
                birthday |-> Unwrap(birthday.val),
                phone_numbers |-> Unwrap(phone_numbers.val),
                email_addresses |-> json_contact.email,
                address |-> Unwrap(address.val)])

contacts_from_json(objects) ==
    WithContext(
        CollectResults([i \in 1..Len(objects) |->
                           Contact_try_from(DeserializeJsonContact(objects[i]))],
                       << >>),
        "Failed to parse contact store")

contacts_to_json(contacts) ==
    [i \in 1..Len(contacts) |-> SerializeJsonContact(JsonContactFrom(contacts[i]))]

\* ContactStore::from_path: file is None when contacts.json cannot be opened
ContactStore_from_path(file) ==
    IF file = None THEN Err("Failed to open contact store")
    ELSE contacts_from_json(Unwrap(file))

-----------------------------------------------------------------------------
(* vCard codec *)

\* the characters ical_vcard refuses in a content line's value
ControlChars == {"\n"}

\* ical_vcard::Value::new
Value_new(s) ==
    IF \E i \in 1..Len(s) : s[i] \in ControlChars
    THEN Err("invalid value")
    ELSE Ok(s)

Contentline(name, params, value) ==
    [name |-> name, params |-> params, value |-> value]

TelParamValue(ty) ==
    CASE ty = "Mobile" -> "cell"
      [] ty = "Home" -> "home"
      [] ty = "Work" -> "work"

TelLine(phone_number_) ==
    Contentline("TEL",
                <<[name |-> "VALUE", value |-> "uri"],
                  [name |-> "TYPE", value |-> TelParamValue(phone_number_.ty)]>>,
                <<"t", "e", "l", ":">> \o FilterNotWhitespace(phone_number_.number))

AdrValue(address) ==
    <<";", ";">> \o address.street \o <<" ">> \o address.number \o <<";">>
    \o address.locality \o <<";", ";">> \o address.postal_code \o <<";">>
    \o address.country.name

\* the lines with BDAY pushed before ADR
AssembleContentlines_bday_first(n, tel, email, adr, bday) ==
    <<Contentline("BEGIN", << >>, VCARD),
      Contentline("VERSION", << >>, <<"4", ".", "0">>),
      n>>
    \o tel \o email \o bday \o adr
    \o <<Contentline("END", << >>, VCARD)>>

\* the order in which contact_to_contentlines pushes the lines it has built
AssembleContentlines(n, tel, email, adr, bday) ==
    <<Contentline("BEGIN", << >>, VCARD),
      Contentline("VERSION", << >>, <<"4", ".", "0">>),
      n>>
    \o tel \o email \o adr \o bday
    \o <<Contentline("END", << >>, VCARD)>>

contact_to_contentlines(contact) ==
    LET n == Value_new(contact.name.last \o <<";">> \o contact.name.first
                       \o <<";", ";", ";">>)
        tel == [i \in 1..Len(contact.phone_numbers) |->
                   TelLine(contact.phone_numbers[i])]
        emails == CollectResults([i \in 1..Len(contact.email_addresses) |->
                                     Value_new(contact.email_addresses[i])], << >>)
        adr == IF IsSome(contact.address)
               THEN Value_new(AdrValue(Unwrap(contact.address)))
               ELSE Ok(<< >>)
        bday == IF IsSome(contact.birthday)
                THEN to_vcard_string_repr(Unwrap(contact.birthday))
                ELSE Ok(<< >>)
    IN IF ~n.ok
       THEN WithContext(n, "Failed to write name to contentline because it contains control characters")
       ELSE IF ~emails.ok
       THEN WithContext(emails, "Failed to write email address to contentline")
       ELSE IF ~adr.ok
       THEN WithContext(adr, "Failed to write address to contentline")
       ELSE IF ~bday.ok
       THEN WithContext(bday, "Failed to write birthday to contentline")
       ELSE Ok(AssembleContentlines(
                   Contentline("N", << >>, Unwrap(n.val)),
                   tel,
                   [i \in 1..Len(contact.email_addresses) |->
                       Contentline("EMAIL", << >>, Unwrap(emails.val)[i])],
                   IF IsSome(contact.address)
                   THEN <<Contentline("ADR", << >>, Unwrap(adr.val))>>
                   ELSE << >>,
                   IF IsSome(contact.birthday)
                   THEN <<Contentline("BDAY", << >>, Unwrap(bday.val))>>
                   ELSE << >>))

RECURSIVE WriteContacts_all_first(_, _, _)
\* a loop that serializes every contact before it writes the first line
WriteContacts_all_first(contacts, i, lines) ==
    IF i > Len(contacts) THEN [lines |-> lines, result |-> Ok("unit")]
    ELSE LET r == contact_to_contentlines(contacts[i])
         IN IF ~r.ok
            THEN [lines |-> << >>,
                  result |-> WithContext(r, "Contact could not be serialized to vCard")]
            ELSE WriteContacts_all_first(contacts, i + 1, lines \o Unwrap(r.val))

RECURSIVE WriteContacts(_, _, _)
\* the loop of contacts_to_vcard: lines written so far, and how the loop ends
WriteContacts(contacts, i, lines) ==
    IF i > Len(contacts) THEN [lines |-> lines, result |-> Ok("unit")]
    ELSE LET r == contact_to_contentlines(contacts[i])
         IN IF ~r.ok
            THEN [lines |-> lines,
                  result |-> WithContext(r, "Contact could not be serialized to vCard")]
            ELSE WriteContacts(contacts, i + 1, lines \o Unwrap(r.val))

contacts_to_vcard(contacts) == WriteContacts(contacts, 1, << >>)

-----------------------------------------------------------------------------
(* Birthday listing *)

Date(y, m, d) == [year |-> y, month |-> m, day |-> d]

\* #[derive(Ord)] on Date: lexicographic on (year, month, day)
DateLess(a, b) ==
    \/ a.year < b.year
    \/ a.year = b.year /\ a.month < b.month
    \/ a.year = b.year /\ a.month = b.month /\ a.day < b.day

\* >= taken as >
DateGe_strict(a, b) == DateLess(b, a)

DateGe(a, b) == ~DateLess(a, b)

\* u16 addition as the release build computes it
U16Add(a, b) == (a + b) % (U16Max + 1)

\* the closure asking for a known year as well
next_bday_year_needed(contact, today_) ==
    IF contact.birthday = None THEN None
    ELSE LET bday == Unwrap(contact.birthday)
         IN IF IsSome(bday.year) /\ IsSome(bday.month) /\ IsSome(bday.day)
            THEN LET bday_this_year ==
                         Date(today_.year, Unwrap(bday.month), Unwrap(bday.day))
                 IN IF ~DateLess(bday_this_year, today_)
                    THEN Some(bday_this_year)
                    ELSE Some(Date((today_.year + 1) % (U16Max + 1),
                                   Unwrap(bday.month), Unwrap(bday.day)))
            ELSE None

\* the closure of filter_map in Command::Bdays: None drops the contact
next_bday(contact, today_) ==
    IF contact.birthday = None THEN None
    ELSE LET bday == Unwrap(contact.birthday)
         IN IF IsSome(bday.month) /\ IsSome(bday.day)
            THEN LET bday_this_year ==
                         Date(today_.year, Unwrap(bday.month), Unwrap(bday.day))
                 IN IF DateGe(bday_this_year, today_)
                    THEN Some(bday_this_year)
                    ELSE Some(Date(U16Add(today_.year, 1), Unwrap(bday.month),
                                   Unwrap(bday.day)))
            ELSE None

RECURSIVE FilterMapBdays(_, _)
FilterMapBdays(contacts, today_) ==
    IF Len(contacts) = 0 THEN << >>
    ELSE LET nb == next_bday(Head(contacts), today_)
             rest == FilterMapBdays(Tail(contacts), today_)
         IN IF IsSome(nb)
            THEN <<[next_bday |-> Unwrap(nb), contact |-> Head(contacts)]>> \o rest
            ELSE rest

\* no sorting: the items stay in the order of the store
SortUnstableByKey_unsorted(items) == {items}

\* the orders sort_unstable_by_key may leave the items in: every arrangement
\* that is ascending by key; the order of equal keys is unspecified
SortUnstableByKey(items) ==
    LET n == Len(items)
        perms == {p \in [1..n -> 1..n] : \A i, j \in 1..n : i # j => p[i] # p[j]}
    IN {[i \in 1..n |-> items[p[i]]] :
           p \in {q \in perms :
                     \A i \in 1..n, j \in 1..n :
                        i < j => ~DateLess(items[q[j]].next_bday,
                                           items[q[i]].next_bday)}}

\* the line writeln! prints for an item
BdayLine(item) ==
    Pad(item.next_bday.year, 4) \o <<"-">> \o Pad(item.next_bday.month, 2)
    \o <<"-">> \o Pad(item.next_bday.day, 2) \o <<" ">>
    \o item.contact.name.first \o <<" ">> \o item.contact.name.last

-----------------------------------------------------------------------------
(* Birthday calendar *)

\* for age in 0..150
AgeLimit == 150

\* the years after the current one that still get an event
YearsAhead == 10

U16Sub(a, b) == (a - b) % (U16Max + 1)

\* ical::Date::new
ical_Date(y, m, d) == [year |-> y, month |-> m, day |-> d]

\* ical::Time::new_utc
ical_Time(h, m, s) == [hour |-> h, minute |-> m, second |-> s]

\* ical::DateTime
ical_DateTime(date, time) == [date |-> date, time |-> time]

\* the order of two readings of the clock
DateTimeLess(a, b) ==
    \/ DateLess(a.date, b.date)
    \/ /\ a.date = b.date
       /\ \/ a.time.hour < b.time.hour
          \/ a.time.hour = b.time.hour /\ a.time.minute < b.time.minute
          \/ /\ a.time.hour = b.time.hour
             /\ a.time.minute = b.time.minute
             /\ a.time.second < b.time.second

\* Event::new(start, stamp) with its summary and its recurrence rule, if set
Event(start, stamp, summary, rrule) ==
    [start |-> start, stamp |-> stamp, summary |-> summary, rrule |-> rrule]

\* format!("{} {} ({age})", first, last)
SummaryWithAge(name, age) ==
    name.first \o <<" ">> \o name.last \o <<" ", "(">> \o to_string(age)
    \o <<")">>

\* format!("{} {}", first, last)
Summary(name) == name.first \o <<" ">> \o name.last

\* the test that stops at the last year that still gets an event
PastHorizon_inclusive(year, now_year) == year >= U16Add(now_year, YearsAhead)

\* date.year() > now_ical.date.year() + 10
PastHorizon(year, now_year) == year > U16Add(now_year, YearsAhead)

\* the year of the date after age passes through date.set_year(date.year() + 1),
\* in a build whose u16 addition wraps
YearAtAge(date, age) == U16Add(date.year, age)

\* for age in 0..150 over a contact whose year of birth is known: the
\* iteration of an age adds its event and then leaves the loop when the next
\* year is past the horizon; date.year() + 1 on 65535 panics in a build with
\* overflow checks and wraps in one without
AgeLoop(name, date, now_ical, overflow_checks, events) ==
    LET Overflows(age) == overflow_checks /\ YearAtAge(date, age) = U16Max
        Leaves(age) ==
            \/ Overflows(age)
            \/ PastHorizon(YearAtAge(date, age + 1), now_ical.date.year)
        leaving == {age \in 0..(AgeLimit - 1) : Leaves(age)}
        last == IF leaving = {} THEN AgeLimit - 1
                ELSE CHOOSE age \in leaving : \A other \in leaving : age <= other
    IN [panicked |-> Overflows(last),
        events |-> events
                   \o [k \in 1..(last + 1) |->
                          Event([date EXCEPT !.year = YearAtAge(date, k - 1)],
                                now_ical, SummaryWithAge(name, k - 1), None)]]

RECURSIVE CalendarLoop(_, _, _, _, _)
\* the loop over the contacts of Command::BdaysCalendar; nows[i] is what
\* chrono::Local::now() returns in the iteration of contact i
CalendarLoop(contacts, i, nows, overflow_checks, events) ==
    IF i > Len(contacts) THEN [panicked |-> FALSE, events |-> events]
    ELSE LET contact == contacts[i]
         IN IF contact.birthday = None
            THEN CalendarLoop(contacts, i + 1, nows, overflow_checks, events)
            ELSE LET bday == Unwrap(contact.birthday)
                 IN IF bday.month = None \/ bday.day = None
                    THEN CalendarLoop(contacts, i + 1, nows, overflow_checks, events)
                    ELSE LET month == Unwrap(bday.month) % 256
                             day == Unwrap(bday.day) % 256
                             now_ical == nows[i]
                         IN IF IsSome(bday.year)
                            THEN LET r == AgeLoop(contact.name,
                                                  ical_Date(Unwrap(bday.year), month, day),
                                                  now_ical, overflow_checks, events)
                                 IN IF r.panicked THEN r
                                    ELSE CalendarLoop(contacts, i + 1, nows,
                                                      overflow_checks, r.events)
                            ELSE CalendarLoop(
                                     contacts, i + 1, nows, overflow_checks,
                                     Append(events,
                                            Event(ical_Date(U16Sub(now_ical.date.year, 1),
                                                            month, day),
                                                  now_ical, Summary(contact.name),
                                                  Some("Yearly"))))

-----------------------------------------------------------------------------
(* Inputs of the value types *)

Years == {0, 4, 1900, 2000, 2023, 9999, 10000, 65535}

Months == 0..13

Days == {0, 1, 9, 28, 29, 30, 31, 32}

OptionOf(S) == {None} \cup {Some(v) : v \in S}

PartialDates ==
    {PartialDate(y, m, d) :
        y \in OptionOf(Years), m \in OptionOf(Months), d \in OptionOf(Days)}

Components ==
    {<< >>, <<"2">>, <<"3", "0">>, <<"+", "1">>, <<"+">>, <<"1", "a">>,
     <<"2", "0", "2", "4">>, <<"6", "5", "5", "3", "5">>,
     <<"6", "5", "5", "3", "6">>}

RECURSIVE Join(_)
\* the components with one '-' between neighbours
Join(cs) ==
    IF Len(cs) = 1 THEN cs[1]
    ELSE cs[1] \o <<"-">> \o Join(Tail(cs))

Texts ==
    {Join(cs) : cs \in UNION {[1..k -> Components] : k \in 1..MaxComponents}}

PhoneAlphabet == {"5", "+", " ", "-", "a"}

PhoneExamples ==
    {<<"+", "1", " ", "5", "5", "5", " ", "1", "2", "3">>,
     <<"5", "5", "5", "-", "1", "2", "3">>,
     <<"a", "b", "c">>,
     <<"0", "4", "4", "\t", "7", "9">>}

PhoneStrings ==
    PhoneExamples
    \cup UNION {[1..k -> PhoneAlphabet] : k \in 0..MaxPhoneLen}

JsonPhoneNumberTypes == {"mobile", "work", "home"}

JsonPhoneNumbers ==
    {[number |-> n, type |-> "mobile"] : n \in PhoneStrings}
    \cup {[number |-> n, type |-> t] :
             n \in PhoneExamples, t \in JsonPhoneNumberTypes}

-----------------------------------------------------------------------------
(* Inputs of the program: contacts.json and the clock *)

Ann == [first |-> <<"A", "n", "n">>, last |-> <<"L", "e", "e">>]

Bo == [first |-> <<"B", "o">>, last |-> <<"R", "a", "y">>]

\* a name with a control character
Cy == [first |-> <<"C", "y", "\n">>, last |-> <<"D", "a", "y">>]

BdayTexts ==
    {<<"-", "-">>,
     <<"-", "0", "2", "-", "2", "9">>,
     <<"-", "0", "6", "-", "0", "1">>,
     <<"2", "0", "0", "0", "-", "0", "6", "-", "0", "1">>,
     <<"1", "9", "9", "0", "-", "-">>,
     <<"2", "0", "0", "0", "-", "-", "1", "5">>,
     <<"2", "0", "0", "0", "-", "1", "3", "-", "0", "1">>,
     <<"1", "2", "3", "4", "5", "-", "0", "1", "-", "0", "1">>,
     <<"1", "8", "5", "0", "-", "0", "3", "-", "0", "5">>,
     <<"6", "5", "5", "3", "5", "-", "0", "1", "-", "0", "1">>}

\* texts that give Bo the same month and day as one of Ann's
TieBdayTexts == {<<"-", "0", "6", "-", "0", "1">>, <<"-", "1", "-", "1", "5">>}

PhoneGood == [number |-> <<"+", "4", "1", " ", "7", "9", " ", "5">>, type |-> "mobile"]

PhoneWork == [number |-> <<"0", "4", "4", " ", "1", "2">>, type |-> "work"]

PhoneBad == [number |-> <<"5", "5", "-", "5">>, type |-> "home"]

EmailGood == <<"a", "@", "x">>

EmailOther == <<"b", "@", "y">>

\* an email address with a control character
EmailBad == <<"c", "\n", "@", "z">>

JsonAddressOf(country) ==
    [street |-> <<"M", "a", "i", "n">>, number |-> <<"7", "a">>, locality |-> <<"B", "e", "r", "n">>,
     postal_code |-> <<"3", "0", "0", "0">>, country |-> country]

\* an object with only its name
Bare(name) ==
    [name |-> name, bday |-> None, phone |-> None, email |-> None,
     address |-> None]

Objects ==
    {Bare(Ann), Bare(Cy)}
    \cup {[Bare(Ann) EXCEPT !.bday = Some(t)] : t \in BdayTexts}
    \cup {[Bare(Bo) EXCEPT !.bday = Some(t)] : t \in TieBdayTexts}
    \cup {[Bare(Ann) EXCEPT !.phone = Some(ps)] :
             ps \in {<< >>, <<PhoneGood, PhoneWork>>, <<PhoneBad>>}}
    \cup {[Bare(Ann) EXCEPT !.email = Some(es)] :
             es \in {<< >>, <<EmailGood, EmailOther>>, <<EmailBad>>}}
    \cup {[Bare(Ann) EXCEPT !.address = Some(JsonAddressOf(c))] :
             c \in {CH_ALPHA2, <<"X", "X">>}}
    \cup {[name |-> Bo, bday |-> Some(<<"1", "9", "9", "2", "-", "1", "2", "-", "3", "1">>),
           phone |-> Some(<<PhoneWork, PhoneGood>>),
           email |-> Some(<<EmailOther, EmailGood>>),
           address |-> Some(JsonAddressOf(DE_ALPHA2))]}

\* the objects that the documents of more than two records are made of
CoreObjects ==
    {Bare(Ann), Bare(Cy),
     [Bare(Ann) EXCEPT !.bday = Some(<<"-", "-">>)],
     [Bare(Ann) EXCEPT !.bday = Some(<<"-", "0", "6", "-", "0", "1">>)],
     [Bare(Bo) EXCEPT !.bday = Some(<<"-", "0", "6", "-", "0", "1">>)],
     [Bare(Ann) EXCEPT !.bday = Some(<<"2", "0", "0", "0", "-", "0", "6", "-", "0", "1">>)],
     [Bare(Ann) EXCEPT !.bday = Some(<<"1", "8", "5", "0", "-", "0", "3", "-", "0", "5">>)],
     [Bare(Ann) EXCEPT !.phone = Some(<<PhoneBad>>)],
     [name |-> Bo, bday |-> Some(<<"1", "9", "9", "2", "-", "1", "2", "-", "3", "1">>),
      phone |-> Some(<<PhoneWork, PhoneGood>>),
      email |-> Some(<<EmailOther, EmailGood>>),
      address |-> Some(JsonAddressOf(DE_ALPHA2))]}

\* the documents: every object in a document of at most two records, the
\* core objects in a longer one
Documents ==
    UNION {[1..k -> IF k > 2 THEN CoreObjects ELSE Objects] : k \in 0..MaxContacts}

\* contacts.json: None when the file cannot be opened
Files == {None} \cup {Some(doc) : doc \in Documents}

\* what Date::today() may return
Todays == {Date(2024, 6, 1), Date(2024, 3, 1), Date(2023, 12, 31)}

\* what chrono::Local::now() may return while the calendar is built: the
\* last second of a year and the first of the next
CalendarNows ==
    {ical_DateTime(ical_Date(2024, 12, 31), ical_Time(23, 59, 59)),
     ical_DateTime(ical_Date(2025, 1, 1), ical_Time(0, 0, 0))}

-----------------------------------------------------------------------------
(* The run: construction *)

ValueIdle ==
    /\ partial = None
    /\ valid = None
    /\ string_repr = None
    /\ parsed = None
    /\ vcard_repr = None
    /\ json_phone = None
    /\ phone_number = None

ProgramIdle ==
    /\ document = None
    /\ store = None
    /\ written = None
    /\ reloaded = None
    /\ vcard = None
    /\ today = None
    /\ bday_items = None
    /\ converted = None
    /\ calendar = None

\* a PartialDate assembled from its three fields, not yet validated
InitDate ==
    /\ pc = "date"
    /\ partial \in {Some(d) : d \in PartialDates}
    /\ valid = None
    /\ string_repr = None
    /\ parsed = None
    /\ vcard_repr = None
    /\ json_phone = None
    /\ phone_number = None
    /\ ProgramIdle

\* a bday text as found in a document
InitText ==
    /\ pc = "text"
    /\ string_repr \in {Some(t) : t \in Texts}
    /\ partial = None
    /\ valid = None
    /\ parsed = None
    /\ vcard_repr = None
    /\ json_phone = None
    /\ phone_number = None
    /\ ProgramIdle

\* a phone entry as found in a document
InitPhone ==
    /\ pc = "phone"
    /\ json_phone \in {Some(p) : p \in JsonPhoneNumbers}
    /\ partial = None
    /\ valid = None
    /\ string_repr = None
    /\ parsed = None
    /\ vcard_repr = None
    /\ phone_number = None
    /\ ProgramIdle

-----------------------------------------------------------------------------
(* The run: operations of the value types *)

Validate ==
    /\ pc = "date"
    /\ valid' = Some(validate(Unwrap(partial)))
    /\ pc' = "validated"
    /\ UNCHANGED <<partial, string_repr, parsed, vcard_repr, json_phone,
                   phone_number>>
    /\ UNCHANGED programVars

ToJson ==
    /\ pc = "validated"
    /\ Unwrap(valid).ok
    /\ string_repr' = Some(to_json_string_repr(Unwrap(partial)))
    /\ pc' = "text"
    /\ UNCHANGED <<partial, valid, parsed, vcard_repr, json_phone, phone_number>>
    /\ UNCHANGED programVars

FromJson ==
    /\ pc = "text"
    /\ parsed' = Some(from_json_string_repr(Unwrap(string_repr)))
    /\ pc' = "parsed"
    /\ UNCHANGED <<partial, valid, string_repr, vcard_repr, json_phone,
                   phone_number>>
    /\ UNCHANGED programVars

ToVcard ==
    /\ pc = "validated"
    /\ Unwrap(valid).ok
    /\ vcard_repr' = Some(to_vcard_string_repr(Unwrap(partial)))
    /\ pc' = "vcard_repr"
    /\ UNCHANGED <<partial, valid, string_repr, parsed, json_phone, phone_number>>
    /\ UNCHANGED programVars

PhoneTryFrom ==
    /\ pc = "phone"
    /\ phone_number' = Some(PhoneNumber_try_from(Unwrap(json_phone)))
    /\ pc' = "phone_done"
    /\ UNCHANGED <<partial, valid, string_repr, parsed, vcard_repr, json_phone>>
    /\ UNCHANGED programVars

-----------------------------------------------------------------------------
(* The run: the program *)

\* main before the store is opened
InitProgram ==
    /\ pc = "start"
    /\ document \in {Some(f) : f \in Files}
    /\ store = None
    /\ written = None
    /\ reloaded = None
    /\ vcard = None
    /\ today = None
    /\ bday_items = None
    /\ converted = None
    /\ calendar = None
    /\ ValueIdle

Contacts == Unwrap(Unwrap(store).val)

\* ContactStore::from_path(store_path)?
Load ==
    /\ pc = "start"
    /\ store' = Some(ContactStore_from_path(Unwrap(document)))
    /\ pc' = IF Unwrap(store').ok THEN "loaded" ELSE "load_failed"
    /\ UNCHANGED <<document, written, reloaded, vcard, today, bday_items,
                   converted, calendar>>
    /\ UNCHANGED valueVars

\* Command::Export with OutputFormat::Json
ExportJson ==
    /\ pc = "loaded"
    /\ written' = Some(contacts_to_json(Contacts))
    /\ pc' = "json_written"
    /\ UNCHANGED <<document, store, reloaded, vcard, today, bday_items,
                   converted, calendar>>
    /\ UNCHANGED valueVars

\* contacts_from_json on the document contacts_to_json wrote
Reload ==
    /\ pc = "json_written"
    /\ reloaded' = Some(contacts_from_json(Unwrap(written)))
    /\ pc' = "reloaded"
    /\ UNCHANGED <<document, store, written, vcard, today, bday_items,
                   converted, calendar>>
    /\ UNCHANGED valueVars

\* Command::Export with OutputFormat::Vcard
ExportVcard ==
    /\ pc = "loaded"
    /\ vcard' = Some(contacts_to_vcard(Contacts))
    /\ pc' = "vcard_written"
    /\ UNCHANGED <<document, store, written, reloaded, today, bday_items,
                   converted, calendar>>
    /\ UNCHANGED valueVars

\* Command::Bdays
Bdays ==
    /\ pc = "loaded"
    /\ \E t \in Todays :
          /\ today' = Some(t)
          /\ \E sorted \in SortUnstableByKey(FilterMapBdays(Contacts, t)) :
                bday_items' = Some(sorted)
    /\ pc' = "bdays_listed"
    /\ UNCHANGED <<document, store, written, reloaded, vcard, converted,
                   calendar>>
    /\ UNCHANGED valueVars

\* the Date values the birthday listing holds: today and every next_bday
HeldDates ==
    {Unwrap(today)}
    \cup {Unwrap(bday_items)[i].next_bday : i \in 1..Len(Unwrap(bday_items))}

\* PartialDate::from(date) on a Date the listing holds
FromDate ==
    /\ pc = "bdays_listed"
    /\ \E date \in HeldDates : converted' = Some(PartialDateFromDate(date))
    /\ pc' = "converted"
    /\ UNCHANGED <<document, store, written, reloaded, vcard, today, bday_items,
                   calendar>>
    /\ UNCHANGED valueVars

\* Command::BdaysCalendar: the clock is read once for every contact that gets
\* events; a panic ends the process before the calendar is written
BdaysCalendar ==
    /\ pc = "loaded"
    /\ \E nows \in [1..Len(Contacts) -> CalendarNows], overflow_checks \in BOOLEAN :
          /\ \A i, j \in 1..Len(Contacts) :
                i <= j => ~DateTimeLess(nows[j], nows[i])
          /\ LET r == CalendarLoop(Contacts, 1, nows, overflow_checks, << >>)
             IN /\ calendar' = Some(IF r.panicked
                                    THEN [r EXCEPT !.events = << >>]
                                    ELSE r)
                /\ pc' = IF r.panicked THEN "calendar_panicked"
                         ELSE "calendar_written"
    /\ UNCHANGED <<document, store, written, reloaded, vcard, today, bday_items,
                   converted>>
    /\ UNCHANGED valueVars

-----------------------------------------------------------------------------
(* Specifications *)

InitValue == InitDate \/ InitText \/ InitPhone

NextValue == Validate \/ ToJson \/ FromJson \/ ToVcard \/ PhoneTryFrom

NextProgram ==
    Load \/ ExportJson \/ Reload \/ ExportVcard \/ Bdays \/ FromDate
    \/ BdaysCalendar

Init == InitValue \/ InitProgram

Next == NextValue \/ NextProgram

Spec == Init /\ [][Next]_vars

-----------------------------------------------------------------------------
(* Properties of PartialDate *)

\* C1: a PartialDate that validate accepts, written by to_json_string_repr
\* and read back by from_json_string_repr, is read successfully and has the
\* same year, month and day, absent ones included.
C1_JsonDateRoundTrip ==
    (pc = "parsed" /\ IsSome(partial)) =>
        /\ Unwrap(parsed).ok
        /\ Unwrap(Unwrap(parsed).val).year = Unwrap(partial).year
        /\ Unwrap(Unwrap(parsed).val).month = Unwrap(partial).month
        /\ Unwrap(Unwrap(parsed).val).day = Unwrap(partial).day

\* a 29 February without a year has made the round trip
C1_Witness ==
    /\ pc = "parsed"
    /\ partial = Some(PartialDate(None, Some(2), Some(29)))
    /\ Unwrap(string_repr) = <<"-", "0", "2", "-", "2", "9">>
    /\ Unwrap(parsed).ok

\* C3: every producer of a PartialDate hands out a date that validate
\* accepts: what from_json_string_repr returns, and what the conversion
\* from a Date produces.
C3_ProducersValidate ==
    /\ (IsSome(parsed) /\ Unwrap(parsed).ok) =>
           validate(Unwrap(Unwrap(parsed).val)).ok
    /\ IsSome(converted) => validate(Unwrap(converted)).ok

ClaimLeap(y) == (y % 4 = 0 /\ y % 100 # 0) \/ y % 400 = 0

ClaimMaxDays(month, year) ==
    IF month = None THEN 31
    ELSE IF Unwrap(month) = 2
         THEN IF year = None THEN 29
              ELSE IF ClaimLeap(Unwrap(year)) THEN 29 ELSE 28
    ELSE IF Unwrap(month) \in {4, 6, 9, 11} THEN 30
    ELSE 31

ClaimAccepts(d) ==
    /\ d.month = None \/ Unwrap(d.month) \in 1..12
    /\ \/ d.day = None
       \/ /\ 1 <= Unwrap(d.day)
          /\ Unwrap(d.day) <= ClaimMaxDays(d.month, d.year)

\* C4: validate accepts a date exactly when its month is absent or in 1..12
\* and its day is absent or between 1 and the month's length: 31 without a
\* month, 30 or 31 for the months other than February, and for February 29
\* without a year or in a leap year (2000) and 28 otherwise (1900).
C4_ValidateRule ==
    /\ IsSome(valid) => (Unwrap(valid).ok <=> ClaimAccepts(Unwrap(partial)))
    /\ max_days_in_month(Some(2), None) = 29
    /\ max_days_in_month(Some(2), Some(1900)) = 28
    /\ max_days_in_month(Some(2), Some(2000)) = 29

\* 29 February 1900 has been refused
C4_Witness ==
    /\ pc = "validated"
    /\ partial = Some(PartialDate(Some(1900), Some(2), Some(29)))
    /\ ~Unwrap(valid).ok

ClaimComponentCount(text) ==
    1 + Cardinality({i \in 1..Len(text) : text[i] = "-"})

RECURSIVE ClaimDecimal(_)
ClaimDecimal(c) ==
    IF Len(c) = 0 THEN 0
    ELSE 10 * ClaimDecimal(SubSeq(c, 1, Len(c) - 1)) + DigitVal(c[Len(c)])

ClaimBadComponent(c) ==
    /\ Len(c) > 0
    /\ \/ \E i \in 1..Len(c) : c[i] \notin AsciiDigits
       \/ ClaimDecimal(c) > U16Max

\* C5: from_json_string_repr returns an error for a text that does not
\* split on '-' into exactly 3 components, and for a text with a non-empty
\* component that holds a character that is no digit or that denotes a
\* number above 65535.
C5_ParseRejects ==
    (pc = "parsed") =>
        LET text == Unwrap(string_repr)
        IN (\/ ClaimComponentCount(text) # 3
            \/ \E i \in 1..3 : ClaimBadComponent(split(text)[i]))
           => ~Unwrap(parsed).ok

ClaimTwo(n) == <<DigitStr[((n \div 10) % 10) + 1], DigitStr[(n % 10) + 1]>>

ClaimFour(n) ==
    <<DigitStr[((n \div 1000) % 10) + 1], DigitStr[((n \div 100) % 10) + 1]>>
    \o ClaimTwo(n)

\* the encoding the table gives a date, None where it gives none
ClaimVcard(date) ==
    LET y == date.year
        m == date.month
        d == date.day
    IN IF IsSome(y) /\ Unwrap(y) > 9999 THEN None
       ELSE IF y = None /\ m = None /\ IsSome(d)
            THEN Some(<<"-", "-", "-">> \o ClaimTwo(Unwrap(d)))
       ELSE IF y = None /\ IsSome(m) /\ d = None
            THEN Some(<<"-", "-">> \o ClaimTwo(Unwrap(m)))
       ELSE IF y = None /\ IsSome(m) /\ IsSome(d)
            THEN Some(<<"-", "-">> \o ClaimTwo(Unwrap(m)) \o ClaimTwo(Unwrap(d)))
       ELSE IF IsSome(y) /\ m = None /\ d = None
            THEN Some(ClaimFour(Unwrap(y)))
       ELSE IF IsSome(y) /\ IsSome(m) /\ d = None
            THEN Some(ClaimFour(Unwrap(y)) \o <<"-">> \o ClaimTwo(Unwrap(m)))
       ELSE IF IsSome(y) /\ IsSome(m) /\ IsSome(d)
            THEN Some(ClaimFour(Unwrap(y)) \o ClaimTwo(Unwrap(m))
                      \o ClaimTwo(Unwrap(d)))
       ELSE None

\* C6: for a valid PartialDate to_vcard_string_repr succeeds exactly for
\* day, month, month+day, year, year+month and year+month+day with a year of
\* at most 9999, and then gives ---DD, --MM, --MMDD, YYYY, YYYY-MM or
\* YYYYMMDD zero-padded; it fails with nothing present, with year and day
\* but no month, and with a year above 9999.
C6_VcardDateTable ==
    IsSome(vcard_repr) =>
        LET expected == ClaimVcard(Unwrap(partial))
        IN /\ Unwrap(vcard_repr).ok <=> IsSome(expected)
           /\ Unwrap(vcard_repr).ok =>
                 Unwrap(Unwrap(vcard_repr).val) = Unwrap(expected)

\* 29 February of the year 4 has been written as 00040229
C6_Witness ==
    /\ pc = "vcard_repr"
    /\ partial = Some(PartialDate(Some(4), Some(2), Some(29)))
    /\ Unwrap(vcard_repr).ok
    /\ Unwrap(Unwrap(vcard_repr).val) = <<"0", "0", "0", "4", "0", "2", "2", "9">>

-----------------------------------------------------------------------------
(* Properties of the JSON codec and of PhoneNumber *)

\* C2: the contacts of the store, written by contacts_to_json and read by
\* contacts_from_json, are read successfully, as many and in the same order,
\* each equal field for field; a contact without phone numbers or without
\* email addresses has no such key in the document and is read back with an
\* empty sequence.
C2_JsonRoundTrip ==
    /\ IsSome(written) =>
          /\ Len(Unwrap(written)) = Len(Contacts)
          /\ \A i \in 1..Len(Contacts) :
                /\ Unwrap(written)[i].phone = None
                      <=> Len(Contacts[i].phone_numbers) = 0
                /\ Unwrap(written)[i].email = None
                      <=> Len(Contacts[i].email_addresses) = 0
    /\ IsSome(reloaded) =>
          /\ Unwrap(reloaded).ok
          /\ Len(Unwrap(Unwrap(reloaded).val)) = Len(Contacts)
          /\ \A i \in 1..Len(Contacts) :
                LET a == Contacts[i]
                    b == Unwrap(Unwrap(reloaded).val)[i]
                IN /\ b.name = a.name
                   /\ b.birthday = a.birthday
                   /\ b.phone_numbers = a.phone_numbers
                   /\ b.email_addresses = a.email_addresses
                   /\ b.address = a.address

\* a contact with nothing but a name and one with every field, phones of
\* two types among them, have made the round trip
C2_Witness ==
    /\ pc = "reloaded"
    /\ Len(Contacts) = 2
    /\ Len(Contacts[1].phone_numbers) = 0
    /\ Len(Contacts[1].email_addresses) = 0
    /\ Len(Contacts[2].phone_numbers) = 2
    /\ Contacts[2].phone_numbers[1].ty = "Work"
    /\ Len(Contacts[2].email_addresses) = 2
    /\ IsSome(Contacts[2].birthday)
    /\ IsSome(Contacts[2].address)
    /\ Unwrap(written)[1].phone = None

ClaimStrip(s) == SelectSeq(s, LAMBDA c : c \notin Whitespace)

ClaimPhoneOk(number) ==
    LET t == ClaimStrip(number)
    IN /\ Len(t) > 0
       /\ t[1] \in AsciiDigits \/ t[1] = "+"
       /\ \A i \in 2..Len(t) : t[i] \in AsciiDigits

\* C7: a phone number is accepted exactly when, whitespace removed, it is
\* not empty, starts with an ASCII digit or '+' and continues with ASCII
\* digits only ("+1 555 123" is accepted; "555-123", "" and "abc" are not);
\* every phone number of a loaded store is such a number.
C7_PhoneRule ==
    /\ IsSome(phone_number) =>
          /\ Unwrap(phone_number).ok <=> ClaimPhoneOk(Unwrap(json_phone).number)
          /\ Unwrap(json_phone).number = <<"+", "1", " ", "5", "5", "5", " ", "1", "2", "3">> => Unwrap(phone_number).ok
          /\ Unwrap(json_phone).number \in {<<"5", "5", "5", "-", "1", "2", "3">>, << >>, <<"a", "b", "c">>}
                => ~Unwrap(phone_number).ok
    /\ (IsSome(store) /\ Unwrap(store).ok) =>
          \A i \in 1..Len(Contacts) :
             \A j \in 1..Len(Contacts[i].phone_numbers) :
                ClaimPhoneOk(Contacts[i].phone_numbers[j].number)

\* "+1 555 123" has been accepted
C7_Witness ==
    /\ pc = "phone_done"
    /\ Unwrap(json_phone).number = <<"+", "1", " ", "5", "5", "5", " ", "1", "2", "3">>
    /\ Unwrap(phone_number).ok

-----------------------------------------------------------------------------
(* Properties of the vCard codec *)

\* what a line shows of the datum it was made from
LineDatum(line) ==
    IF line.name = "TEL" THEN SubSeq(line.value, 5, Len(line.value))
    ELSE IF line.name \in {"BEGIN", "END", "VERSION", "EMAIL"} THEN line.value
    ELSE << >>

ClaimContactLines(contact) ==
    <<<<"BEGIN", VCARD>>, <<"VERSION", <<"4", ".", "0">>>>, <<"N", << >>>>>>
    \o [i \in 1..Len(contact.phone_numbers) |->
           <<"TEL", ClaimStrip(contact.phone_numbers[i].number)>>]
    \o [i \in 1..Len(contact.email_addresses) |->
           <<"EMAIL", contact.email_addresses[i]>>]
    \o (IF IsSome(contact.address) THEN <<<<"ADR", << >>>>>> ELSE << >>)
    \o (IF IsSome(contact.birthday) THEN <<<<"BDAY", << >>>>>> ELSE << >>)
    \o <<<<"END", VCARD>>>>

RECURSIVE ClaimLines(_)
ClaimLines(contacts) ==
    IF Len(contacts) = 0 THEN << >>
    ELSE ClaimContactLines(Head(contacts)) \o ClaimLines(Tail(contacts))

\* C8: the lines written for each serialized contact are BEGIN:VCARD,
\* VERSION:4.0, N, a TEL line per phone number in order, an EMAIL line per
\* email address in order, ADR exactly if there is an address, BDAY exactly
\* if there is a birthday, END:VCARD; so BEGIN:VCARD is first, END:VCARD
\* last, and no TEL, EMAIL, ADR or BDAY line is without its datum.
C8_VcardLineOrder ==
    IsSome(vcard) =>
        LET lines == Unwrap(vcard).lines
            shown == [i \in 1..Len(lines) |-> <<lines[i].name, LineDatum(lines[i])>>]
        IN \E k \in 0..Len(Contacts) :
              /\ shown = ClaimLines(SubSeq(Contacts, 1, k))
              /\ Unwrap(vcard).result.ok => k = Len(Contacts)

\* a contact with only a name and one with two phone numbers, two email
\* addresses, an address and a birthday have been written
C8_Witness ==
    /\ pc = "vcard_written"
    /\ Unwrap(vcard).result.ok
    /\ Len(Contacts) = 2
    /\ Len(Contacts[1].phone_numbers) = 0
    /\ Contacts[1].address = None
    /\ Len(Contacts[2].phone_numbers) = 2
    /\ Len(Contacts[2].email_addresses) = 2
    /\ IsSome(Contacts[2].address)
    /\ IsSome(Contacts[2].birthday)
    /\ Len(Unwrap(vcard).lines) = 14

-----------------------------------------------------------------------------
(* Properties of the birthday listing *)

Eligible(contact) ==
    /\ IsSome(contact.birthday)
    /\ IsSome(Unwrap(contact.birthday).month)
    /\ IsSome(Unwrap(contact.birthday).day)

\* the next occurrence the rule gives a contact, the year not reduced to u16
ClaimNextOccurrence(contact, t) ==
    LET m == Unwrap(Unwrap(contact.birthday).month)
        d == Unwrap(Unwrap(contact.birthday).day)
    IN IF m > t.month \/ (m = t.month /\ d >= t.day)
       THEN Date(t.year, m, d)
       ELSE Date(t.year + 1, m, d)

\* C9: with today = (Y, M, D), a contact whose birthday has month m and day
\* d is listed with (Y, m, d) when (m, d) >= (M, D) lexicographically and
\* with (Y+1, m, d) otherwise; month and day are carried over unchanged,
\* also 29 February into a year that is no leap year.
C9_NextOccurrence ==
    IsSome(bday_items) =>
        LET items == Unwrap(bday_items)
            t == Unwrap(today)
        IN /\ \A i \in 1..Len(items) :
                 /\ Eligible(items[i].contact)
                 /\ items[i].next_bday = ClaimNextOccurrence(items[i].contact, t)
           /\ \A c \in 1..Len(Contacts) :
                 Eligible(Contacts[c]) =>
                    \E i \in 1..Len(items) :
                       /\ items[i].contact = Contacts[c]
                       /\ items[i].next_bday = ClaimNextOccurrence(Contacts[c], t)

\* on 1 March 2024 a birthday of 29 February is listed as 2025-02-29, after
\* a birthday of 1 June listed as 2024-06-01
C9_Witness ==
    /\ pc = "bdays_listed"
    /\ Unwrap(today) = Date(2024, 3, 1)
    /\ Len(Unwrap(bday_items)) = 2
    /\ Unwrap(bday_items)[1].next_bday = Date(2024, 6, 1)
    /\ Unwrap(bday_items)[2].next_bday = Date(2025, 2, 29)

Ascending(items) ==
    \A i, j \in 1..Len(items) :
       i < j => ~DateLess(items[j].next_bday, items[i].next_bday)

RECURSIVE ClaimInsert(_, _)
\* item put behind every item of sorted whose date is not later
ClaimInsert(item, sorted) ==
    IF Len(sorted) = 0 THEN <<item>>
    ELSE IF DateLess(item.next_bday, Head(sorted).next_bday)
         THEN <<item>> \o sorted
         ELSE <<Head(sorted)>> \o ClaimInsert(item, Tail(sorted))

RECURSIVE ClaimStableSort(_)
ClaimStableSort(items) ==
    IF Len(items) = 0 THEN << >>
    ELSE ClaimInsert(items[Len(items)],
                     ClaimStableSort(SubSeq(items, 1, Len(items) - 1)))

\* the contacts of the store that are listed, in the order of the store
Projected == FilterMapBdays(Contacts, Unwrap(today))

\* C10 as it stands: the listing is ascending by the projected date, and
\* contacts with equal projected dates keep the order they have in the store.
C10_SortedAndStable ==
    IsSome(bday_items) =>
        /\ Ascending(Unwrap(bday_items))
        /\ Unwrap(bday_items) = ClaimStableSort(Projected)

\* C10, amended: the listing is ascending by the projected date and holds
\* exactly the projected contacts; the order among contacts with equal
\* projected dates is not fixed.
C10_SortedPermutation ==
    IsSome(bday_items) =>
        LET items == Unwrap(bday_items)
            n == Len(items)
        IN /\ Ascending(items)
           /\ n = Len(Projected)
           /\ \E p \in [1..n -> 1..n] :
                 /\ \A i, j \in 1..n : i # j => p[i] # p[j]
                 /\ \A i \in 1..n : items[i] = Projected[p[i]]

\* two contacts in the store with the later date first are listed in
\* ascending order
C10_Witness ==
    /\ pc = "bdays_listed"
    /\ Len(Unwrap(bday_items)) = 2
    /\ DateLess(Projected[2].next_bday, Projected[1].next_bday)
    /\ Unwrap(bday_items)[1] = Projected[2]

\* the positions in the store of the contacts with month and day known
EligiblePositions == {c \in 1..Len(Contacts) : Eligible(Contacts[c])}

\* C11: the listing has exactly one entry for each contact of the store
\* whose birthday has month and day known and none for a contact without a
\* birthday or without month or day; leaving a contact out is no failure:
\* every loaded store gets its listing.
C11_ListedExactlyEligible ==
    /\ IsSome(bday_items) =>
          LET items == Unwrap(bday_items)
          IN /\ Len(items) = Cardinality(EligiblePositions)
             /\ \E f \in [1..Len(items) -> EligiblePositions] :
                   /\ \A i, j \in 1..Len(items) : i # j => f[i] # f[j]
                   /\ \A i \in 1..Len(items) : items[i].contact = Contacts[f[i]]
    /\ pc = "loaded" => ENABLED Bdays

\* a store with a year-only birthday and a birthday with month and day has
\* been listed: one entry
C11_Witness ==
    /\ pc = "bdays_listed"
    /\ Len(Contacts) = 2
    /\ Contacts[1].birthday = Some(PartialDate(Some(1990), None, None))
    /\ Eligible(Contacts[2])
    /\ Len(Unwrap(bday_items)) = 1
    /\ Unwrap(bday_items)[1].contact = Contacts[2]

-----------------------------------------------------------------------------
(* Properties of loading and exporting as a whole *)

\* an object of the document with a birthday text that is refused, a phone
\* number that is not well formed, or a country code that is not in the table
ClaimBadObject(object) ==
    \/ /\ IsSome(object.bday)
       /\ ~from_json_string_repr(Unwrap(object.bday)).ok
    \/ /\ IsSome(object.phone)
       /\ \E j \in 1..Len(Unwrap(object.phone)) :
             ~ClaimPhoneOk(Unwrap(object.phone)[j].number)
    \/ /\ IsSome(object.address)
       /\ \A c \in CountryTable : c.alpha2 # Unwrap(object.address).country

\* C14: loading is all or nothing: when any object of the document is bad
\* (birthday, phone number or country code), contacts_from_json and
\* ContactStore::from_path return an error and no store, the bad record is
\* never skipped; a store that was loaded holds every record of the document,
\* converted, in the order of the document.
C14_LoadAllOrNothing ==
    (IsSome(store) /\ IsSome(Unwrap(document))) =>
        LET objects == Unwrap(Unwrap(document))
        IN /\ (\E i \in 1..Len(objects) : ClaimBadObject(objects[i])) =>
                 /\ ~Unwrap(store).ok
                 /\ Unwrap(store).val = None
                 /\ ~contacts_from_json(objects).ok
           /\ Unwrap(store).ok =>
                 /\ Len(Contacts) = Len(objects)
                 /\ \A i \in 1..Len(objects) :
                       /\ Contacts[i].name = objects[i].name
                       /\ Some(Contacts[i]) =
                             Contact_try_from(DeserializeJsonContact(objects[i])).val

\* a document with a good record followed by one with a refused phone number
\* has been refused as a whole
C14_Witness ==
    /\ pc = "load_failed"
    /\ IsSome(Unwrap(document))
    /\ Len(Unwrap(Unwrap(document))) = 2
    /\ ~ClaimBadObject(Unwrap(Unwrap(document))[1])
    /\ Unwrap(Unwrap(document))[2] = [Bare(Ann) EXCEPT !.phone = Some(<<PhoneBad>>)]
    /\ ~Unwrap(store).ok

\* the error chain has a layer that names the contact and wraps a cause
ClaimNamesContact(err, name) ==
    \E k \in 1..(Len(err) - 1) : err[k].who = Some(name)

\* a store that was refused because of a record names the first bad record
ClaimLoadErrorNamesContact ==
    (IsSome(store) /\ IsSome(Unwrap(document)) /\ ~Unwrap(store).ok) =>
        LET objects == Unwrap(Unwrap(document))
            bad == {i \in 1..Len(objects) : ClaimBadObject(objects[i])}
            first == CHOOSE i \in bad : \A j \in bad : i <= j
        IN /\ bad # {}
           /\ ClaimNamesContact(Unwrap(store).err, objects[first].name)

\* a vCard export that failed names the contact that could not be written
ClaimExportErrorNamesContact ==
    (IsSome(vcard) /\ ~Unwrap(vcard).result.ok) =>
        LET failing == {i \in 1..Len(Contacts) :
                           ~contact_to_contentlines(Contacts[i]).ok}
            first == CHOOSE i \in failing : \A j \in failing : i <= j
        IN /\ failing # {}
           /\ ClaimNamesContact(Unwrap(vcard).result.err, Contacts[first].name)

\* C13: every failure of one contact, while loading (birthday, phone number,
\* country code) and while exporting to vCard (name, email address, address
\* or birthday that cannot be written as a content line), gives an error that
\* names the offending contact by first and last name and wraps the cause.
C13_ErrorsNameContact ==
    /\ ClaimLoadErrorNamesContact
    /\ ClaimExportErrorNamesContact

\* what can be written of a contact as content lines: no control character
\* in the name, an email address or the address, a birthday the table encodes
ClaimSerializable(contact) ==
    LET clean(s) == \A i \in 1..Len(s) : s[i] \notin ControlChars
    IN /\ clean(contact.name.first) /\ clean(contact.name.last)
       /\ \A i \in 1..Len(contact.email_addresses) :
             clean(contact.email_addresses[i])
       /\ IsSome(contact.address) =>
             LET a == Unwrap(contact.address)
             IN clean(a.street) /\ clean(a.number) /\ clean(a.locality)
                /\ clean(a.postal_code) /\ clean(a.country.name)
       /\ IsSome(contact.birthday) =>
             IsSome(ClaimVcard(Unwrap(contact.birthday)))

\* the contacts before the first one that cannot be written
ClaimWrittenBefore(contacts) ==
    LET failing == {i \in 1..Len(contacts) : ~ClaimSerializable(contacts[i])}
    IN IF failing = {} THEN contacts
       ELSE SubSeq(contacts, 1, (CHOOSE i \in failing : \A j \in failing : i <= j) - 1)

\* C15: the vCard export has no partial success: when a contact cannot be
\* written, contacts_to_vcard returns an error and the output holds no
\* content line of any contact, neither of the failing one nor of one after
\* or before it.
C15_NoPartialOutput ==
    IsSome(vcard) =>
        /\ Unwrap(vcard).result.ok <=>
              \A i \in 1..Len(Contacts) : ClaimSerializable(Contacts[i])
        /\ ~Unwrap(vcard).result.ok => Unwrap(vcard).lines = << >>

\* C15 as the code has it: when a contact cannot be written,
\* contacts_to_vcard returns an error, and the output holds the complete
\* lines of the contacts before the first failing one, in order, and no line
\* of the failing contact or of a later one.
C15_OutputUpToFailure ==
    IsSome(vcard) =>
        /\ Unwrap(vcard).result.ok <=>
              \A i \in 1..Len(Contacts) : ClaimSerializable(Contacts[i])
        /\ LET lines == Unwrap(vcard).lines
               written_ == ClaimWrittenBefore(Contacts)
           IN /\ [i \in 1..Len(lines) |-> <<lines[i].name, LineDatum(lines[i])>>]
                    = ClaimLines(written_)
              /\ Len(lines) > 0 =>
                    /\ lines[1].name = "BEGIN"
                    /\ lines[Len(lines)].name = "END"
              /\ Cardinality({i \in 1..Len(lines) : lines[i].name = "BEGIN"})
                    = Len(written_)

\* the second of two contacts could not be written, and the lines of the
\* first are in the output
C15_Witness ==
    /\ pc = "vcard_written"
    /\ ~Unwrap(vcard).result.ok
    /\ Len(Contacts) = 2
    /\ ClaimSerializable(Contacts[1])
    /\ ~ClaimSerializable(Contacts[2])
    /\ Len(Unwrap(vcard).lines) > 0

-----------------------------------------------------------------------------
(* Properties of the birthday calendar *)

\* the position of the '(' that opens the age in a summary, 0 if there is none
ClaimParen(summary) ==
    IF \E p \in 1..Len(summary) : summary[p] = "("
    THEN CHOOSE p \in 1..Len(summary) : summary[p] = "("
    ELSE 0

\* what an event of a known year shows: its date, the name and the age read
\* from its summary, and the year of the clock reading it was built with
ClaimShown(event) ==
    LET p == ClaimParen(event.summary)
    IN [year |-> event.start.year, month |-> event.start.month,
        day |-> event.start.day,
        who |-> SubSeq(event.summary, 1, p - 2),
        age |-> ClaimDecimal(SubSeq(event.summary, p + 1, Len(event.summary) - 1)),
        now_year |-> event.stamp.date.year]

\* the events of a contact for the ages from 0 to last, the year as given
ClaimAgeEvents(contact, last, now_year, YearOf(_)) ==
    LET bday == Unwrap(contact.birthday)
    IN [k \in 1..(last + 1) |->
           [year |-> YearOf(k - 1), month |-> Unwrap(bday.month),
            day |-> Unwrap(bday.day),
            who |-> contact.name.first \o <<" ">> \o contact.name.last,
            age |-> k - 1, now_year |-> now_year]]

ClaimKnownYear(contact) ==
    Eligible(contact) /\ IsSome(Unwrap(contact.birthday).year)

\* one event for each age a >= 0 with B + a <= N + 10
ClaimEventsToHorizon(contact, now_year) ==
    LET B == Unwrap(Unwrap(contact.birthday).year)
    IN ClaimAgeEvents(contact, now_year + 10 - B, now_year, LAMBDA a : B + a)

\* one event for each age a in 0..149 with a = 0 or B + a <= N + 10; from
\* the year 65535 the build without overflow checks goes on from the year 0
ClaimEventsCapped(contact, now_year) ==
    LET B == Unwrap(Unwrap(contact.birthday).year)
        ages == {a \in 0..149 : a = 0 \/ B + a <= now_year + 10}
        last == CHOOSE a \in ages : \A b \in ages : b <= a
    IN IF B = 65535
       THEN ClaimAgeEvents(contact, 149, now_year, LAMBDA a : (B + a) % 65536)
       ELSE ClaimAgeEvents(contact, last, now_year, LAMBDA a : B + a)

RECURSIVE ClaimConcat(_)
ClaimConcat(seqs) ==
    IF Len(seqs) = 0 THEN << >> ELSE Head(seqs) \o ClaimConcat(Tail(seqs))

\* the calendar's events of known years are those the rule gives the
\* contacts of the store in their order, each with its current year
ClaimCalendarIs(EventsOf(_, _)) ==
    LET events == SelectSeq(Unwrap(calendar).events, LAMBDA e : e.rrule = None)
        shown == [k \in 1..Len(events) |-> ClaimShown(events[k])]
    IN \E now_years \in [1..Len(Contacts) -> {2024, 2025}] :
          shown = ClaimConcat([i \in 1..Len(Contacts) |->
                                  IF ClaimKnownYear(Contacts[i])
                                  THEN EventsOf(Contacts[i], now_years[i])
                                  ELSE << >>])

ClaimListingOneToday ==
    IsSome(bday_items) =>
        \E t \in Todays :
           /\ today = Some(t)
           /\ \A i \in 1..Len(Unwrap(bday_items)) :
                 Unwrap(bday_items)[i].next_bday
                    = ClaimNextOccurrence(Unwrap(bday_items)[i].contact, t)

\* the events without the time of day of their stamps
ClaimDatesOnly(events) ==
    [k \in 1..Len(events) |->
        [start |-> events[k].start, stamp |-> events[k].stamp.date,
         summary |-> events[k].summary, rrule |-> events[k].rrule]]

\* the calendar is the one that a single current date gives every contact
ClaimCalendarOneNow ==
    (IsSome(calendar) /\ ~Unwrap(calendar).panicked) =>
        /\ \A j, k \in 1..Len(Unwrap(calendar).events) :
              Unwrap(calendar).events[j].stamp.date
                 = Unwrap(calendar).events[k].stamp.date
        /\ \E now \in CalendarNows, overflow_checks \in BOOLEAN :
              LET r == CalendarLoop(Contacts, 1, [i \in 1..Len(Contacts) |-> now],
                                    overflow_checks, << >>)
              IN /\ ~r.panicked
                 /\ ClaimDatesOnly(r.events)
                       = ClaimDatesOnly(Unwrap(calendar).events)

\* C16: the projector's output is a function of the contacts and of one
\* "today": in one run of the listing or of the calendar every contact is
\* projected against the same current date, so the result does not depend
\* on the clock passing midnight or a year's end while contacts are processed.
C16_OneToday ==
    /\ ClaimListingOneToday
    /\ ClaimCalendarOneNow

=============================================================================
